---- MODULE Spec2Model ----
(***************************************************************************)
(* A model of process.py: the batch driver (main), the completion client   *)
(* (call_claude_api) and the document compiler (compile_to_docx).           *)
(*                                                                         *)
(* File names are sequences of one-character strings, so that endswith,    *)
(* os.path.splitext, the output-name f-string and sorted() are computed as *)
(* Python computes them.  Paragraph texts are sequences of fragments whose *)
(* concatenation is the Python string.                                     *)
(***************************************************************************)
EXTENDS Integers, Sequences, FiniteSets, TLC

(***************************************************************************)
(* Bounds of the model.                                                    *)
(***************************************************************************)
\* the largest token count the service reports for one call
MaxTokens == 2
\* the last second the wall clock reaches during a run
MaxClock == 2

(***************************************************************************)
(* Strings.                                                                *)
(***************************************************************************)
\* the characters that occur in file names, in code-point order
CodePoints ==
    << "-", ".", "0", "1", "2", "3", "4", "5", "6", "7", "8", "9", "_",
       "a", "b", "c", "d", "e", "f", "g", "h", "i", "j", "k", "l", "m",
       "n", "o", "p", "q", "r", "s", "t", "u", "v", "w", "x", "y", "z" >>

ord(c) == CHOOSE i \in 1..Len(CodePoints) : CodePoints[i] = c

\* the first index at or after i where a and b differ or one of them ends
RECURSIVE FirstDifference(_, _, _)
FirstDifference(a, b, i) ==
    IF i > Len(a) \/ i > Len(b) \/ a[i] # b[i] THEN i
    ELSE FirstDifference(a, b, i + 1)

\* Python's str < str: the first differing character decides, a proper
\* prefix is smaller
StrLess(a, b) ==
    LET i == FirstDifference(a, b, 1)
    IN  /\ i <= Len(b)
        /\ (i > Len(a) \/ ord(a[i]) < ord(b[i]))

\* str.endswith
endswith(s, suffix) ==
    /\ Len(s) >= Len(suffix)
    /\ SubSeq(s, Len(s) - Len(suffix) + 1, Len(s)) = suffix

\* str.rfind(".") + 1, 0 when there is no dot
rfind_dot(p) ==
    IF \E i \in 1..Len(p) : p[i] = "."
    THEN CHOOSE i \in 1..Len(p) : p[i] = "." /\ \A j \in (i + 1)..Len(p) : p[j] # "."
    ELSE 0

\* os.path.splitext(p)[0] of a bare file name: the name up to its last dot,
\* unless only dots precede that dot (leading dots belong to the root)
splitext_root(p) ==
    LET dotIndex == rfind_dot(p)
    IN  IF dotIndex > 0 /\ \E j \in 1..(dotIndex - 1) : p[j] # "."
        THEN SubSeq(p, 1, dotIndex - 1)
        ELSE p

\* sorted(names)
RECURSIVE sorted(_)
sorted(S) ==
    IF S = {} THEN << >>
    ELSE LET m == CHOOSE x \in S : \A y \in S \ {x} : StrLess(x, y)
         IN  << m >> \o sorted(S \ {m})

Digits == << "0", "1", "2", "3", "4", "5", "6", "7", "8", "9" >>

\* "%M" and "%S": two decimal digits
TwoDigits(n) == << Digits[(n \div 10) + 1], Digits[(n % 10) + 1] >>

\* datetime.now().strftime("%Y%m%d_%H%M%S"), the clock counting the seconds
\* of one hour of one day
strftime(t) ==
    << "2", "0", "2", "4", "0", "7", "0", "1", "_", "1", "2" >>
        \o TwoDigits((t \div 60) % 60) \o TwoDigits(t % 60)

MODEL ==
    << "c", "l", "a", "u", "d", "e", "-", "3", "-", "5", "-", "s", "o", "n",
       "n", "e", "t", "-", "2", "0", "2", "4", "0", "6", "2", "0" >>

DotTxt == << ".", "t", "x", "t" >>
DotJson == << ".", "j", "s", "o", "n" >>

\* the base name of output_filename inside results/
output_filename(filename, timestamp) ==
    splitext_root(filename) \o << "_" >> \o MODEL \o << "_" >> \o timestamp \o DotJson

(***************************************************************************)
(* JSON values.  An object is a function from its keys; a file or a reply  *)
(* text is unparseable, or a JSON value that is no object, or an object.   *)
(***************************************************************************)
EmptyObject == [k \in {} |-> ""]

Unparseable == [json |-> "invalid", data |-> EmptyObject]
NonObject == [json |-> "array", data |-> EmptyObject]
Object(d) == [json |-> "object", data |-> d]

Word1 == [word |-> "w1", explanation |-> "e1"]
Word2 == [word |-> "w2", explanation |-> "e2"]
Part1 == [quote |-> "q1", explanation |-> "x1"]
Part2 == [quote |-> "q2", explanation |-> "x2"]

Complete ==
    [letter |-> "L", original_text |-> "T",
     difficult_words |-> << Word1, Word2 >>,
     detailed_interpretation |-> << Part1, Part2 >>]
OneWord ==
    [letter |-> "M", original_text |-> "U",
     difficult_words |-> << Word2 >>,
     detailed_interpretation |-> << Part1 >>]
EmptyWords ==
    [letter |-> "L", original_text |-> "T",
     difficult_words |-> << >>,
     detailed_interpretation |-> << Part1 >>]
NoLetter ==
    [original_text |-> "T",
     difficult_words |-> << Word1 >>,
     detailed_interpretation |-> << Part1 >>]
NoOriginalText ==
    [letter |-> "L",
     difficult_words |-> << Word1 >>,
     detailed_interpretation |-> << Part1 >>]
NoDifficultWords ==
    [letter |-> "L", original_text |-> "T",
     detailed_interpretation |-> << Part1 >>]
NoInterpretation ==
    [letter |-> "L", original_text |-> "T",
     difficult_words |-> << Word1 >>]
WordWithoutExplanation ==
    [letter |-> "L", original_text |-> "T",
     difficult_words |-> << Word1, [word |-> "w2"] >>,
     detailed_interpretation |-> << Part1 >>]
PartWithoutExplanation ==
    [letter |-> "L", original_text |-> "T",
     difficult_words |-> << >>,
     detailed_interpretation |-> << Part1, [quote |-> "q2"] >>]

\* what a file of results/ may hold before the run
ResultContents ==
    { Unparseable } \cup
    { Object(d) : d \in { Complete, OneWord, EmptyWords, NoLetter, NoOriginalText,
                          NoDifficultWords, NoInterpretation,
                          WordWithoutExplanation, PartWithoutExplanation } }

\* what response.content[0].text may hold: the service's text is not validated
ResponseTexts == { Unparseable, NonObject, Object(Complete), Object(NoDifficultWords) }

\* what client.messages.create does: it raises a subclass of anthropic.APIError,
\* or returns a response with its usage and its text
Replies ==
    { [status |-> s, input_tokens |-> 0, output_tokens |-> 0, text |-> Unparseable] :
        s \in { "APIConnectionError", "APIStatusError" } }
    \cup
    { [status |-> "ok", input_tokens |-> i, output_tokens |-> o, text |-> t] :
        i \in 1..MaxTokens, o \in 1..MaxTokens, t \in ResponseTexts }

(***************************************************************************)
(* The file system around the program.                                     *)
(***************************************************************************)
PromptTxt == << "p", "r", "o", "m", "p", "t" >> \o DotTxt
ExamplesTxt == << "e", "x", "a", "m", "p", "l", "e", "s" >> \o DotTxt

\* names a file of sources/ may have
SourceNames ==
    { << "a" >> \o DotTxt, DotTxt, DotTxt \o DotTxt, << "n", ".", "m", "d" >> }

\* the stamp of an earlier run
EarlierStamp ==
    << "2", "0", "2", "4", "0", "6", "3", "0", "_", "2", "3", "5", "9", "5", "9" >>

\* names a file of results/ may have before the run
EarlierName(source) == output_filename(source, EarlierStamp)
EarlierNames == { EarlierName(<< "a" >> \o DotTxt), EarlierName(<< "b" >> \o DotTxt) }
OtherNames == { << "n", ".", "m", "d" >> }

\* the directories results/ over the given names and contents
Directories(names, contents) ==
    UNION { [S -> contents] : S \in SUBSET names }

(***************************************************************************)
(* State.                                                                  *)
(***************************************************************************)
VARIABLES
    skip_processing,      \* args.skip_processing
    cwd,                  \* which of prompt.txt, examples.txt exist
    sources,              \* the names in sources/
    results,              \* results/: name -> content
    compiled_docx,        \* compiled_interpretations.docx: its paragraphs
    total_input_tokens,
    total_output_tokens,
    model_usage,
    errors,
    pc,                   \* where main is
    listing,              \* the names of os.listdir('sources') the loop has not reached
    clock,                \* the wall clock, in seconds
    \* history
    read_files,           \* the paths read_file has been called on
    calls,                \* per source name, the completion calls made for it
    written,              \* per source name, the names write_file was called with
    saves                 \* how many times doc.save has run

vars ==
    << skip_processing, cwd, sources, results, compiled_docx, total_input_tokens,
       total_output_tokens, model_usage, errors, pc, listing, clock,
       read_files, calls, written, saves >>

None == [is_none |-> TRUE, content |-> EmptyObject]
Some(d) == [is_none |-> FALSE, content |-> d]

\* Python's truth value of what call_claude_api returns
Truthy(r) == ~r.is_none /\ DOMAIN r.content # {}

Path(dir, name) == [dir |-> dir, name |-> name]

InitFrom(sourceSets, directories) ==
    /\ skip_processing \in BOOLEAN
    /\ cwd \in SUBSET { PromptTxt, ExamplesTxt }
    /\ sources \in sourceSets
    /\ results \in directories
    /\ compiled_docx = << >>
    /\ total_input_tokens = 0
    /\ total_output_tokens = 0
    /\ model_usage = << >>
    /\ errors = << >>
    /\ pc = "start"
    /\ listing = {}
    /\ clock = 0
    /\ read_files = {}
    /\ calls = [f \in sources |-> << >>]
    /\ written = [f \in sources |-> << >>]
    /\ saves = 0

(***************************************************************************)
(* call_claude_api.                                                        *)
(***************************************************************************)
ApiErrorMsg(e) == [text |-> "Error in API call", file |-> << >>, exc |-> e]

\* model_usage after one response
UsageAfter(input_tokens, output_tokens) ==
    LET mu == IF MODEL \in DOMAIN model_usage
              THEN model_usage
              ELSE [m \in { MODEL } |-> [input_tokens |-> 0, output_tokens |-> 0]]
    IN  [mu EXCEPT ![MODEL] =
            [input_tokens |-> @.input_tokens + input_tokens,
             output_tokens |-> @.output_tokens + output_tokens]]

\* content['usage'] = {...}
WithUsage(content, input_tokens, output_tokens) ==
    [k \in DOMAIN content \cup { "usage" } |->
        IF k = "usage"
        THEN [input_tokens |-> input_tokens, output_tokens |-> output_tokens]
        ELSE content[k]]

\* One call: what it returns or that it raised, and the globals after it.
call_claude_api(reply) ==
    IF reply.status # "ok"
    THEN \* except anthropic.APIError
         [raised |-> FALSE, ret |-> None,
          total_input_tokens |-> total_input_tokens,
          total_output_tokens |-> total_output_tokens,
          model_usage |-> model_usage,
          errors |-> Append(errors, ApiErrorMsg(reply.status))]
    ELSE LET counted ==
                 [total_input_tokens |-> total_input_tokens + reply.input_tokens,
                  total_output_tokens |-> total_output_tokens + reply.output_tokens,
                  model_usage |-> UsageAfter(reply.input_tokens, reply.output_tokens),
                  errors |-> errors]
         IN  IF reply.text.json # "object"
             THEN \* json.loads raises json.JSONDecodeError, or content['usage'] = ...
                  \* raises TypeError: neither is an anthropic.APIError
                  [raised |-> TRUE, ret |-> None] @@ counted
             ELSE [raised |-> FALSE,
                   ret |-> Some(WithUsage(reply.text.data, reply.input_tokens,
                                          reply.output_tokens))] @@ counted

(***************************************************************************)
(* compile_to_docx.  A paragraph carries its alignment, whether set_rtl    *)
(* marked it, and its runs; file and part record which result file and     *)
(* which step of the loop body added it.                                   *)
(***************************************************************************)
Run(text, bold) == [text |-> text, bold |-> bold]

Para(file, part, alignment, rtl, runs) ==
    [file |-> file, part |-> part, alignment |-> alignment, rtl |-> rtl, runs |-> runs]

\* the separator of a word and its explanation: a space, U+2013, a space
EnDash == " -- "

\* doc.add_paragraph() with nothing done to it
Spacing(file) == Para(file, "spacing", "NONE", FALSE, << >>)

\* the join with ", " between the pairs
RECURSIVE join_words_with_comma(_)
join_words_with_comma(difficult_words) ==
    IF difficult_words = << >> THEN << >>
    ELSE LET item == Head(difficult_words)
             pair == << item.word, EnDash, item.explanation >>
         IN  IF Len(difficult_words) = 1
             THEN pair
             ELSE pair \o << ", " >> \o join_words_with_comma(Tail(difficult_words))

\* '; '.join([f"{item['word']} {EnDash} {item['explanation']}" for item in difficult_words])
RECURSIVE join_words(_)
join_words(difficult_words) ==
    IF difficult_words = << >> THEN << >>
    ELSE LET item == Head(difficult_words)
             pair == << item.word, EnDash, item.explanation >>
         IN  IF Len(difficult_words) = 1
             THEN pair
             ELSE pair \o << "; " >> \o join_words(Tail(difficult_words))

\* the keys of an item the f-string reads, in the order it reads them
MissingKey(item, keys) ==
    LET missing == { i \in 1..Len(keys) : keys[i] \notin DOMAIN item }
    IN  IF missing = {} THEN ""
        ELSE keys[CHOOSE i \in missing : \A j \in missing : i <= j]

\* the first item of the list that raises KeyError, 0 if none does
FirstBad(items, keys) ==
    LET bad == { i \in 1..Len(items) : MissingKey(items[i], keys) # "" }
    IN  IF bad = {} THEN 0 ELSE CHOOSE i \in bad : \A j \in bad : i <= j

\* the runs the loop over detailed_interpretation adds for parts 1..n
RECURSIVE interpretation_runs(_, _)
interpretation_runs(parts, n) ==
    IF n = 0 THEN << >>
    ELSE interpretation_runs(parts, n - 1)
            \o << Run(<< parts[n].quote >>, TRUE),
                  Run(<< " - ", parts[n].explanation, " " >>, FALSE) >>

KeyError(key) == << "KeyError", key >>

\* The body of the try block for one result file: the paragraphs it adds to the
\* document, and the exception that ended it, if one did.
compile_file(filename, content) ==
    LET d == content.data
        ok(paras) == [paras |-> paras, failed |-> FALSE, exc |-> << >>]
        fail(paras, exc) == [paras |-> paras, failed |-> TRUE, exc |-> exc]
        letter ==
            << Para(filename, "letter", "CENTER", TRUE,
                    << Run(IF "letter" \in DOMAIN d THEN << d.letter >> ELSE << >>, TRUE) >>),
               Spacing(filename) >>
        original ==
            letter \o << Para(filename, "original_text", "RIGHT", TRUE,
                              << Run(<< d.original_text >>, FALSE) >>),
                         Spacing(filename) >>
        badWord == FirstBad(d.difficult_words, << "word", "explanation" >>)
        words ==
            IF d.difficult_words = << >> THEN original
            ELSE original \o << Para(filename, "difficult_words", "RIGHT", TRUE,
                                     << Run(join_words(d.difficult_words), FALSE) >>),
                                Spacing(filename) >>
        parts == d.detailed_interpretation
        badPart == FirstBad(parts, << "quote", "explanation" >>)
    IN  IF content.json = "invalid"
        THEN fail(<< >>, << "JSONDecodeError" >>)
        ELSE IF content.json # "object"
        THEN \* data.get on a list, after the paragraph was added
             fail(<< Para(filename, "letter", "CENTER", TRUE, << >>) >>,
                  << "AttributeError" >>)
        ELSE IF "original_text" \notin DOMAIN d
        THEN \* the paragraph is added before data['original_text'] is read
             fail(letter \o << Para(filename, "original_text", "RIGHT", TRUE, << >>) >>,
                  KeyError("original_text"))
        ELSE IF "difficult_words" \notin DOMAIN d
        THEN fail(original, KeyError("difficult_words"))
        ELSE IF badWord # 0
        THEN \* the paragraph is added before the join is evaluated
             fail(original \o << Para(filename, "difficult_words", "RIGHT", TRUE, << >>) >>,
                  KeyError(MissingKey(d.difficult_words[badWord],
                                      << "word", "explanation" >>)))
        ELSE IF "detailed_interpretation" \notin DOMAIN d
        THEN fail(words, KeyError("detailed_interpretation"))
        ELSE IF badPart # 0
        THEN \* the runs of the parts before the bad one stay, and the bad part's
             \* quote if only its explanation is missing
             fail(words \o
                    << Para(filename, "detailed_interpretation", "RIGHT", TRUE,
                            interpretation_runs(parts, badPart - 1) \o
                              (IF "quote" \in DOMAIN parts[badPart]
                               THEN << Run(<< parts[badPart].quote >>, TRUE) >>
                               ELSE << >>)) >>,
                  KeyError(MissingKey(parts[badPart], << "quote", "explanation" >>)))
        ELSE ok(words \o
                  << Para(filename, "detailed_interpretation", "RIGHT", TRUE,
                          interpretation_runs(parts, Len(parts))),
                     Spacing(filename) >>)

CompileErrorMsg(filename, exc) ==
    [text |-> "Error processing file", file |-> filename, exc |-> exc]

\* the loop with the try around it instead of inside it: the first failure ends it
RECURSIVE compile_loop_ended_by_failure(_, _)
compile_loop_ended_by_failure(dir, names) ==
    IF names = << >> THEN [doc |-> << >>, errors |-> << >>]
    ELSE LET filename == Head(names)
         IN  IF ~endswith(filename, DotJson)
             THEN compile_loop_ended_by_failure(dir, Tail(names))
             ELSE LET r == compile_file(filename, dir[filename])
                  IN  IF r.failed
                      THEN [doc |-> r.paras,
                            errors |-> << CompileErrorMsg(filename, r.exc) >>]
                      ELSE LET rest == compile_loop_ended_by_failure(dir, Tail(names))
                           IN  [doc |-> r.paras \o rest.doc, errors |-> rest.errors]

\* the loop of compile_to_docx over the names left: the paragraphs added and the
\* messages appended to errors
RECURSIVE compile_loop(_, _)
compile_loop(dir, names) ==
    IF names = << >> THEN [doc |-> << >>, errors |-> << >>]
    ELSE LET filename == Head(names)
             rest == compile_loop(dir, Tail(names))
         IN  IF ~endswith(filename, DotJson) THEN rest
             ELSE LET r == compile_file(filename, dir[filename])
                  IN  [doc |-> r.paras \o rest.doc,
                       errors |-> (IF r.failed
                                   THEN << CompileErrorMsg(filename, r.exc) >>
                                   ELSE << >>) \o rest.errors]

\* for filename in sorted(os.listdir(results_dir)): ...
compile_to_docx(dir) == compile_loop(dir, sorted(DOMAIN dir))

(***************************************************************************)
(* main.                                                                   *)
(***************************************************************************)
\* read_file of a missing file, which would go on with an empty text
read_file_never_raises(filename) == [raised |-> FALSE]

\* read_file of prompt.txt or examples.txt: whether open raises FileNotFoundError
read_file(filename) == [raised |-> filename \notin cwd]

\* the start of main, were the flag --skip-processing not looked at
Start_ignores_flag ==
    /\ pc = "start"
    /\ IF read_file(PromptTxt).raised \/ read_file(ExamplesTxt).raised
       THEN /\ pc' = "aborted"
            /\ UNCHANGED << read_files, listing >>
       ELSE /\ read_files' = read_files \cup { Path(".", PromptTxt), Path(".", ExamplesTxt) }
            /\ listing' = sources
            /\ pc' = IF sources = {} THEN "compile" ELSE "loop"
    /\ UNCHANGED << skip_processing, cwd, sources, results, compiled_docx,
                    total_input_tokens, total_output_tokens, model_usage, errors,
                    clock, calls, written, saves >>

\* main up to the loop over sources/: the arguments, prompt.txt and examples.txt.
\* Nothing catches what read_file raises.
Start ==
    /\ pc = "start"
    /\ IF skip_processing
       THEN /\ pc' = "compile"
            /\ UNCHANGED << read_files, listing >>
       ELSE IF read_file(PromptTxt).raised
       THEN /\ pc' = "aborted"
            /\ UNCHANGED << read_files, listing >>
       ELSE IF read_file(ExamplesTxt).raised
       THEN /\ pc' = "aborted"
            /\ read_files' = read_files \cup { Path(".", PromptTxt) }
            /\ UNCHANGED listing
       ELSE /\ read_files' = read_files \cup { Path(".", PromptTxt), Path(".", ExamplesTxt) }
            /\ listing' = sources
            /\ pc' = IF sources = {} THEN "compile" ELSE "loop"
    /\ UNCHANGED << skip_processing, cwd, sources, results, compiled_docx,
                    total_input_tokens, total_output_tokens, model_usage, errors,
                    clock, calls, written, saves >>

\* where main is after a pass of the loop that did not raise
AfterPass(left) == IF left = {} THEN "compile" ELSE "loop"

\* One pass of the loop for a name that does not end with .txt.
SkipFile ==
    /\ pc = "loop"
    /\ \E filename \in listing :
        /\ ~endswith(filename, DotTxt)
        /\ listing' = listing \ { filename }
        /\ pc' = AfterPass(listing')
    /\ UNCHANGED << skip_processing, cwd, sources, results, compiled_docx,
                    total_input_tokens, total_output_tokens, model_usage, errors,
                    clock, read_files, calls, written, saves >>

\* One pass of the loop for a .txt file: read it, call the service, and write the
\* result if one came back.  The clock may advance while the call blocks.
ProcessFile ==
    /\ pc = "loop"
    /\ \E filename \in listing, reply \in Replies, elapsed \in 0..1 :
        LET r == call_claude_api(reply)
            name == output_filename(filename, strftime(clock'))
            outcome == IF r.raised THEN "raised"
                       ELSE IF r.ret.is_none THEN "None" ELSE "content"
        IN  /\ endswith(filename, DotTxt)
            /\ clock + elapsed <= MaxClock
            /\ clock' = clock + elapsed
            /\ read_files' = read_files \cup { Path("sources", filename) }
            /\ total_input_tokens' = r.total_input_tokens
            /\ total_output_tokens' = r.total_output_tokens
            /\ model_usage' = r.model_usage
            /\ errors' = r.errors
            /\ calls' = [calls EXCEPT ![filename] =
                            Append(@, [input_tokens |-> reply.input_tokens,
                                       output_tokens |-> reply.output_tokens,
                                       outcome |-> outcome])]
            /\ IF r.raised
               THEN \* the exception leaves main
                    /\ pc' = "crashed"
                    /\ UNCHANGED << listing, results, written >>
               ELSE /\ listing' = listing \ { filename }
                    /\ pc' = AfterPass(listing')
                    /\ IF Truthy(r.ret)
                       THEN /\ results' = [n \in DOMAIN results \cup { name } |->
                                              IF n = name THEN Object(r.ret.content)
                                              ELSE results[n]]
                            /\ written' = [written EXCEPT ![filename] = Append(@, name)]
                       ELSE UNCHANGED << results, written >>
    /\ UNCHANGED << skip_processing, cwd, sources, compiled_docx, saves >>

\* compile_to_docx('results', 'compiled_interpretations.docx') and the summary
Compile ==
    /\ pc = "compile"
    /\ LET c == compile_to_docx(results)
       IN  /\ compiled_docx' = c.doc
           /\ errors' = errors \o c.errors
    /\ saves' = saves + 1
    /\ pc' = "done"
    /\ UNCHANGED << skip_processing, cwd, sources, results, total_input_tokens,
                    total_output_tokens, model_usage, clock, listing, read_files,
                    calls, written >>

Next == Start \/ SkipFile \/ ProcessFile \/ Compile

\* the sets of at most two of the given names
AtMostTwo(names) == { {} } \cup { { f, g } : f \in names, g \in names }

\* a run over a sources/ of at most two files and a results/ holding at most one
\* earlier result
Init ==
    InitFrom(AtMostTwo(SourceNames),
             Directories({ EarlierName(<< "a" >> \o DotTxt) },
                         { Unparseable, Object(Complete) }))

Spec == Init /\ [][Next]_vars

\* a run over a small sources/ and a results/ holding earlier results of every
\* kind, and possibly a file that is no .json file
InitCompile ==
    InitFrom(SUBSET { << "a" >> \o DotTxt, << "n", ".", "m", "d" >> },
             { d @@ e : d \in Directories(EarlierNames, ResultContents),
                        e \in Directories(OtherNames, { Unparseable }) })

CompileSpec == InitCompile /\ [][Next]_vars

(***************************************************************************)
(* Vocabulary of the properties.                                           *)
(***************************************************************************)
TxtSources == { f \in sources : endswith(f, DotTxt) }
JsonNames == { n \in DOMAIN results : endswith(n, DotJson) }

\* the calls made for f that returned a record / that did not
Returned(f) == SelectSeq(calls[f], LAMBDA c : c.outcome = "content")
Failed(f) == SelectSeq(calls[f], LAMBDA c : c.outcome # "content")

RECURSIVE SeqSum(_, _)
SeqSum(cs, field) ==
    IF cs = << >> THEN 0 ELSE Head(cs)[field] + SeqSum(Tail(cs), field)

\* the sum of a token count over the calls that returned a record
RECURSIVE ReturnedSum(_, _)
ReturnedSum(files, field) ==
    IF files = {} THEN 0
    ELSE LET f == CHOOSE x \in files : TRUE
         IN  SeqSum(Returned(f), field) + ReturnedSum(files \ { f }, field)

RECURSIVE FailedCount(_)
FailedCount(files) ==
    IF files = {} THEN 0
    ELSE LET f == CHOOSE x \in files : TRUE
         IN  Len(Failed(f)) + FailedCount(files \ { f })

ApiErrors == SelectSeq(errors, LAMBDA m : m.text = "Error in API call")
ErrorsFor(f) ==
    SelectSeq(errors, LAMBDA m : m.text = "Error processing file" /\ m.file = f)

NoCallMade == \A f \in sources : calls[f] = << >>
NothingWritten == \A f \in sources : written[f] = << >>
CountersZero ==
    /\ total_input_tokens = 0
    /\ total_output_tokens = 0
    /\ DOMAIN model_usage = {}

\* the paragraphs of the document that the result file f added, and their parts
Section(f) == SelectSeq(compiled_docx, LAMBDA p : p.file = f)
Parts(f) == [i \in 1..Len(Section(f)) |-> Section(f)[i].part]

HasKeys(obj, keys) == keys \subseteq DOMAIN obj
AllHaveKeys(items, keys) == \A i \in 1..Len(items) : HasKeys(items[i], keys)

\* the content holds an object whose list of difficult words can be rendered
WordsRenderable(c) ==
    /\ c.json = "object"
    /\ HasKeys(c.data, { "original_text", "difficult_words" })
    /\ AllHaveKeys(c.data.difficult_words, { "word", "explanation" })

\* the content holds an object with a renderable interpretation
InterpretationRenderable(c) ==
    /\ c.json = "object"
    /\ HasKeys(c.data, { "original_text", "detailed_interpretation" })
    /\ AllHaveKeys(c.data.detailed_interpretation, { "quote", "explanation" })

\* the content holds every key the compiler requires
WellFormed(c) == WordsRenderable(c) /\ InterpretationRenderable(c)

\* the parts of a section compiled in full
FullSection(c) ==
    << "letter", "spacing", "original_text", "spacing" >>
        \o (IF c.data.difficult_words = << >> THEN << >>
            ELSE << "difficult_words", "spacing" >>)
        \o << "detailed_interpretation", "spacing" >>

\* the parts of a section compiled in full with no paragraph of difficult words
SectionWithoutWords ==
    << "letter", "spacing", "original_text", "spacing",
       "detailed_interpretation", "spacing" >>

(***************************************************************************)
(* The properties.                                                         *)
(***************************************************************************)

\* C1: every completion call that fails, by a transport error, an HTTP-status
\* error or a reply text that is no JSON object, is caught inside the call: it
\* returns None, appends exactly one message to errors, and no exception
\* reaches main, which goes on with the next file.
C1_FailedCallIsContained ==
    /\ pc # "crashed"
    /\ \A f \in sources : \A i \in 1..Len(calls[f]) :
          calls[f][i].outcome \in { "content", "None" }
    /\ Len(ApiErrors) = FailedCount(sources)

\* C2: at every point of a run the totals, and the entry of the model in
\* model_usage, are the sums of the token counts over the calls that returned
\* a record; a call that failed adds nothing.
C2_TotalsSumReturnedCalls ==
    /\ total_input_tokens = ReturnedSum(sources, "input_tokens")
    /\ total_output_tokens = ReturnedSum(sources, "output_tokens")
    /\ IF MODEL \in DOMAIN model_usage
       THEN /\ model_usage[MODEL].input_tokens = ReturnedSum(sources, "input_tokens")
            /\ model_usage[MODEL].output_tokens = ReturnedSum(sources, "output_tokens")
       ELSE /\ ReturnedSum(sources, "input_tokens") = 0
            /\ ReturnedSum(sources, "output_tokens") = 0

\* C3: when compile_to_docx has run, every result file that fails has exactly
\* one message in errors, every result file that holds all required keys is
\* compiled in full whatever failed before it, with no message, and the
\* document has been saved once.
C3_FailureDoesNotAbortCompile ==
    pc = "done" =>
        /\ saves = 1
        /\ \A f \in JsonNames :
              IF WellFormed(results[f])
              THEN /\ ErrorsFor(f) = << >>
                   /\ Parts(f) = FullSection(results[f])
              ELSE Len(ErrorsFor(f)) = 1

\* C3 happens: a compiled directory where a failing file sorts before a file
\* compiled in full.
C3_Witness ==
    /\ pc = "done"
    /\ \E f \in JsonNames, g \in JsonNames :
          /\ StrLess(f, g)
          /\ ~WellFormed(results[f])
          /\ Len(ErrorsFor(f)) = 1
          /\ WellFormed(results[g])
          /\ Section(g) # << >>

\* C4: after the loop of a full-processing run, every source file whose call
\* returned a result has exactly one result file written for it, and no two
\* source files were written to the same name.
C4_OneResultFilePerSource ==
    (~skip_processing /\ pc \in { "compile", "done" }) =>
        \A f \in TxtSources :
            Returned(f) # << >> =>
                /\ Len(written[f]) = 1
                /\ written[f][1] \in DOMAIN results
                /\ \A g \in TxtSources \ { f } :
                      \A i \in 1..Len(written[g]) : written[g][i] # written[f][1]

\* C5: in full-processing mode, when prompt.txt or examples.txt is missing the
\* run never gets past its start: no call is made, nothing is written, the
\* counters stay at zero and the document is not compiled.
C5_MissingInputAborts ==
    (~skip_processing /\ ~({ PromptTxt, ExamplesTxt } \subseteq cwd)) =>
        /\ pc \in { "start", "aborted" }
        /\ NoCallMade
        /\ NothingWritten
        /\ CountersZero
        /\ saves = 0
        /\ compiled_docx = << >>

\* C5 happens: a run aborted with source files waiting.
C5_Witness ==
    /\ pc = "aborted"
    /\ TxtSources # {}

\* C6: in a full-processing run no source file gets a second call, and when
\* the run has left the loop every .txt file of sources/ has had its call,
\* whatever the calls before it did.
C6_ExactlyOneAttempt ==
    /\ \A f \in sources : Len(calls[f]) <= 1
    /\ (~skip_processing /\ pc \in { "compile", "done", "crashed" }) =>
          \A f \in TxtSources : Len(calls[f]) = 1

\* what C7 says of each state
ModeInvariant ==
    /\ skip_processing =>
          /\ NoCallMade
          /\ read_files = {}
          /\ NothingWritten
          /\ CountersZero
          /\ listing = {}
    /\ saves <= 1
    /\ saves = 1 =>
          /\ pc = "done"
          /\ listing = {}
          /\ ~skip_processing => \A f \in TxtSources : calls[f] # << >>
    /\ pc = "done" => saves = 1

\* what C7 says of each step
ModeStep ==
    /\ skip_processing' = skip_processing
    /\ (skip_processing /\ pc = "start") => pc' = "compile"
    /\ saves' # saves => (pc = "compile" /\ listing = {} /\ saves' = saves + 1)

IsJoinedPairs(text, ws) ==
    /\ Len(text) = 4 * Len(ws) - 1
    /\ \A i \in 1..Len(ws) :
          /\ text[4 * i - 3] = ws[i].word
          /\ text[4 * i - 2] = EnDash
          /\ text[4 * i - 1] = ws[i].explanation
          /\ i < Len(ws) => text[4 * i] = "; "

\* the paragraphs of difficult words in the section of f
WordParagraphs(f) == SelectSeq(Section(f), LAMBDA p : p.part = "difficult_words")

\* C8: for every compiled result file whose difficult_words can be rendered,
\* an empty list gives no paragraph of difficult words, and a non-empty list
\* gives exactly one, whose text is the pairs in list order joined by "; ".
C8_DifficultWordsParagraph ==
    pc = "done" =>
        \A f \in JsonNames :
            WordsRenderable(results[f]) =>
                LET ws == results[f].data.difficult_words
                    ps == WordParagraphs(f)
                IN  IF ws = << >> THEN ps = << >>
                    ELSE /\ Len(ps) = 1
                         /\ Len(ps[1].runs) = 1
                         /\ IsJoinedPairs(ps[1].runs[1].text, ws)

\* C8 happens: one compile renders a list of two pairs and an empty list.
C8_Witness ==
    /\ pc = "done"
    /\ \E f \in JsonNames, g \in JsonNames :
          /\ WordsRenderable(results[f])
          /\ Len(results[f].data.difficult_words) = 2
          /\ Len(WordParagraphs(f)) = 1
          /\ WordsRenderable(results[g])
          /\ results[g].data.difficult_words = << >>
          /\ Section(g) # << >>

\* C9: a result file with no difficult_words entry, and otherwise complete, is
\* compiled in full with no paragraph of difficult words and no message in
\* errors.
C9_MissingWordsRenders ==
    pc = "done" =>
        \A f \in JsonNames :
            (InterpretationRenderable(results[f])
                /\ "difficult_words" \notin DOMAIN results[f].data) =>
                    /\ ErrorsFor(f) = << >>
                    /\ Parts(f) = SectionWithoutWords

\* C10: the compiled document holds no paragraph of a file that failed: its
\* paragraphs are the full sections of the files compiled without error, in
\* the order of their names.
C10_FailedFileLeavesNoParagraph ==
    pc = "done" =>
        /\ \A i \in 1..Len(compiled_docx) : ErrorsFor(compiled_docx[i].file) = << >>
        /\ \A f \in JsonNames :
              ErrorsFor(f) = << >> => Parts(f) = FullSection(results[f])
        /\ \A i \in 1..Len(compiled_docx), j \in 1..Len(compiled_docx) :
              i < j => ~StrLess(compiled_docx[j].file, compiled_docx[i].file)

====
